---- MODULE Spec2Model ----
(***************************************************************************)
(* A model of gen-katla.py: the snippet-location parsers, the mapping of a *)
(* snippet to a katla invocation, and main's aggregation loop.             *)
(*                                                                         *)
(* Strings are sequences of one-character strings, positions are Python's  *)
(* 0-indexed positions, and -1 is Python's "not found".                    *)
(***************************************************************************)
EXTENDS Integers, Sequences, FiniteSets, TLC

VARIABLES
    \* ---- parser and dispatcher harness (SpecParse, SpecDispatch) ----
    stage,              \* which step of the harness has run
    lines,              \* the line list handed to the parsers
    display_snippets,   \* parse_display_snippets' return value
    display_warnings,   \* 1-indexed lines of its "Unclosed display tag" warnings
    inline_snippets,    \* parse_inline_snippets' return value
    snippet,            \* the snippet handed to run_katla_command
    dispatched,         \* run_katla_command's effects and return value
    \* ---- main (Spec) ----
    pc,                 \* main's position
    files,              \* args.files
    dry_run,            \* args.dry_run
    writable,           \* whether open(output_file, "w") succeeds
    file_pairs,         \* main's file_pairs
    pair_idx,           \* 1-indexed position of the for loop over file_pairs
    snippets,           \* main's snippets for the current pair
    snip_idx,           \* 1-indexed position of the for loop over snippets
    total_success,
    total_snippets,
    all_macro_content,  \* main's list of fragments
    origin,             \* for each fragment, <<pair, snippet>> that appended it
    invocations,        \* every subprocess.run call, with what it did
    reports,            \* every "Would run: ..." line printed
    debug_out,          \* what print_snippet_debug printed as content
    skipped,            \* pairs skipped for a missing file
    output_file,        \* the written katla-macros.tex, or NotWritten
    exit_status         \* the process exit status, or Running

parse_vars == <<stage, lines, display_snippets, display_warnings,
                inline_snippets, snippet, dispatched>>
main_vars == <<pc, files, dry_run, writable, file_pairs, pair_idx, snippets,
               snip_idx, total_success, total_snippets, all_macro_content,
               origin, invocations, reports, debug_out, skipped, output_file,
               exit_status>>
vars == <<parse_vars, main_vars>>

(***************************************************************************)
(* Characters and Python's str operations                                  *)
(***************************************************************************)

\* What \s matches, among the characters of the model.
SpaceChars == {" ", "\t", "\n", "\r"}

\* What \w matches, among the characters of the model.
WordChars == {"a", "b", "c", "d", "e", "f", "g", "h", "i", "k", "l", "m",
              "n", "o", "r", "t", "u", "w", "x", "y", "z", "_",
              "0", "1", "2", "3", "4", "5", "6", "7", "8", "9",
              "A", "B", "D", "E", "M", "T"}

\* s[p] for a 0-indexed p, and "" past the end.
CharAt(s, p) == IF p >= 0 /\ p < Len(s) THEN s[p + 1] ELSE ""

\* s[a:b] for 0 <= a, 0 <= b.
Slice(s, a, b) ==
    LET hi == IF b > Len(s) THEN Len(s) ELSE b
    IN  IF a >= hi THEN <<>> ELSE SubSeq(s, a + 1, hi)

\* Whether sub occurs in s at 0-indexed position p.
HasAt(s, p, sub) ==
    /\ p >= 0
    /\ p + Len(sub) <= Len(s)
    /\ \A k \in 1..Len(sub) : s[p + k] = sub[k]

StartsWith(s, prefix) == HasAt(s, 0, prefix)

EndsWith(s, suffix) == HasAt(s, Len(s) - Len(suffix), suffix)

\* A regular expression that did not match.
NoMatch == <<>>

\* s.find(sub, start): the lowest position >= start where sub occurs, or -1.
RECURSIVE Find(_, _, _)
Find(s, sub, start) ==
    IF start + Len(sub) > Len(s) THEN -1
    ELSE IF HasAt(s, start, sub) THEN start
    ELSE Find(s, sub, start + 1)

\* A search from start forward where the code searches from end backward.
RFindFirst(s, sub, start, end) ==
    IF Find(s, sub, start) + Len(sub) > end THEN -1
    ELSE Find(s, sub, start)

\* s.rfind(sub, start, end): the highest position where sub occurs within
\* s[start:end], or -1.
RECURSIVE RFind(_, _, _, _)
RFind(s, sub, start, end) ==
    IF end - Len(sub) < start THEN -1
    ELSE IF HasAt(s, end - Len(sub), sub) THEN end - Len(sub)
    ELSE RFind(s, sub, start, end - 1)

\* The position a greedy \s* started at p stops at.
RECURSIVE SkipSpace(_, _)
SkipSpace(s, p) ==
    IF CharAt(s, p) \in SpaceChars THEN SkipSpace(s, p + 1) ELSE p

\* The position a greedy \w* started at p stops at.
RECURSIVE SkipWord(_, _)
SkipWord(s, p) ==
    IF CharAt(s, p) \in WordChars THEN SkipWord(s, p + 1) ELSE p

\* The end of s without its trailing characters of chars.
RECURSIVE RStripEnd(_, _, _)
RStripEnd(s, chars, end) ==
    IF end > 0 /\ s[end] \in chars THEN RStripEnd(s, chars, end - 1) ELSE end

\* s.strip()
Strip(s) == Slice(s, SkipSpace(s, 0), RStripEnd(s, SpaceChars, Len(s)))

\* line.rstrip("\n\r")
RStripNewline(s) == Slice(s, 0, RStripEnd(s, {"\n", "\r"}, Len(s)))

(***************************************************************************)
(* The display grammar                                                     *)
(***************************************************************************)

\* <(\w+)>\s*$ matched from lt on, where the name stops at gt: group 1.
DisplayStartTail(line, lt, gt) ==
    IF /\ CharAt(line, lt) = "<"
       /\ gt > lt + 1
       /\ CharAt(line, gt) = ">"
       /\ SkipSpace(line, gt + 1) = Len(line)
    THEN Slice(line, lt + 1, gt)
    ELSE NoMatch

\* </name>\s*$ matched from lt on.
DisplayEndTail(name, end_line, lt) ==
    /\ HasAt(end_line, lt, <<"<", "/">>)
    /\ HasAt(end_line, lt + 2, name)
    /\ CharAt(end_line, lt + 2 + Len(name)) = ">"
    /\ SkipSpace(end_line, lt + 3 + Len(name)) = Len(end_line)

\* re.match(r"^--\s*<(\w+)>\s*$", line): group 1, or NoMatch.
DisplayStartMatch(line) ==
    IF HasAt(line, 0, <<"-", "-">>)
    THEN DisplayStartTail(line, SkipSpace(line, 2),
                          SkipWord(line, SkipSpace(line, 2) + 1))
    ELSE NoMatch

\* re.match(rf"^--\s*</{re.escape(name)}>\s*$", end_line) matched.
DisplayEndMatch(name, end_line) ==
    /\ HasAt(end_line, 0, <<"-", "-">>)
    /\ DisplayEndTail(name, end_line, SkipSpace(end_line, 2))

DisplaySnippet(name, line_offset, line_count) ==
    [name |-> name, kind |-> "display",
     line_offset |-> line_offset, line_count |-> line_count]

\* The off-by-one a count of the lines "up to the closing tag" would make.
LineCountInclusive(j, start_line) == j - start_line

\* line_count = j - start_line - 1
LineCount(j, start_line) == j - start_line - 1

\* The opening marker's line number taken for the first content line's.
LineOffsetOfContent(start_line) == start_line + 2

\* line_offset = start_line + 1
LineOffset(start_line) == start_line + 1

\* The inner while loop: the 0-indexed j of the first closing marker of name
\* at or after j, or -1 when the loop runs off the end (found_end stays False).
RECURSIVE FindEnd(_, _, _)
FindEnd(ls, name, j) ==
    IF j >= Len(ls) THEN -1
    ELSE IF DisplayEndMatch(name, Strip(ls[j + 1])) THEN j
    ELSE FindEnd(ls, name, j + 1)

\* The outer loop resuming after the closing marker it found instead of after
\* the opening marker.
RECURSIVE DisplayScanSkipping(_, _, _)
DisplayScanSkipping(ls, i, acc) ==
    IF i >= Len(ls) THEN acc
    ELSE
        LET name == DisplayStartMatch(Strip(ls[i + 1]))
            j == FindEnd(ls, name, i + 1)
        IN  IF name = NoMatch THEN DisplayScanSkipping(ls, i + 1, acc)
            ELSE IF j = -1
            THEN DisplayScanSkipping(ls, i + 1,
                    [acc EXCEPT !.warnings = Append(@, i + 1)])
            ELSE DisplayScanSkipping(ls, j + 1,
                    [acc EXCEPT !.snippets = Append(@,
                        DisplaySnippet(name, i + 1, j - i - 1))])

\* Lines 55-74 for the opening marker at i: the snippet appended when the
\* inner loop found the closing marker at j, the warning printed when it ran
\* off the end.
DisplayClose(i, name, j, acc) ==
    IF j = -1
    THEN [acc EXCEPT !.warnings = Append(@, i + 1)]
    ELSE [acc EXCEPT !.snippets = Append(@,
            DisplaySnippet(name, LineOffset(i), LineCount(j, i)))]

\* An unclosed opening marker leaving a record with no line count.
DisplayStepPartial(ls, i, name, acc) ==
    IF name = NoMatch THEN acc
    ELSE IF FindEnd(ls, name, i + 1) = -1
    THEN [acc EXCEPT !.snippets = Append(@,
            DisplaySnippet(name, LineOffset(i), -1))]
    ELSE DisplayClose(i, name, FindEnd(ls, name, i + 1), acc)

\* The body of the outer loop at line i, where name is display_start_match's
\* group 1.
DisplayStep(ls, i, name, acc) ==
    IF name = NoMatch THEN acc
    ELSE DisplayClose(i, name, FindEnd(ls, name, i + 1), acc)

\* The outer while loop from i on; acc holds the snippets appended and the
\* warnings printed so far.
RECURSIVE DisplayScan(_, _, _)
DisplayScan(ls, i, acc) ==
    IF i >= Len(ls) THEN acc
    ELSE DisplayScan(ls, i + 1,
            DisplayStep(ls, i, DisplayStartMatch(Strip(ls[i + 1])), acc))

\* parse_display_snippets(lines), with the warnings it prints.
ParseDisplaySnippets(ls) ==
    DisplayScan(ls, 0, [snippets |-> <<>>, warnings |-> <<>>])

(***************************************************************************)
(* The inline grammar                                                      *)
(***************************************************************************)

\* <(\w+)>\s*-\} matched from lt on, where the name stops at gt:
\* [name, end], or NoMatch.
InlineOpenTail(line, lt, gt) ==
    IF /\ CharAt(line, lt) = "<"
       /\ gt > lt + 1
       /\ CharAt(line, gt) = ">"
       /\ HasAt(line, SkipSpace(line, gt + 1), <<"-", "}">>)
    THEN [name |-> Slice(line, lt + 1, gt),
          end |-> SkipSpace(line, gt + 1) + 2]
    ELSE NoMatch

\* Where \{-\s*<(\w+)>\s*-\} matches at p: [name, end], or NoMatch.
InlineOpenAt(line, p) ==
    IF HasAt(line, p, <<"{", "-">>)
    THEN InlineOpenTail(line, SkipSpace(line, p + 2),
                        SkipWord(line, SkipSpace(line, p + 2) + 1))
    ELSE NoMatch

\* </\1>\s*-\} matched from lt on: the position after it, or -1.
InlineCloseTail(line, lt, name) ==
    IF /\ HasAt(line, lt, <<"<", "/">>)
       /\ HasAt(line, lt + 2, name)
       /\ CharAt(line, lt + 2 + Len(name)) = ">"
       /\ HasAt(line, SkipSpace(line, lt + 3 + Len(name)), <<"-", "}">>)
    THEN SkipSpace(line, lt + 3 + Len(name)) + 2
    ELSE -1

\* Where \{-\s*</\1>\s*-\} matches at p: the position after it, or -1.
InlineCloseAt(line, p, name) ==
    IF HasAt(line, p, <<"{", "-">>)
    THEN InlineCloseTail(line, SkipSpace(line, p + 2), name)
    ELSE -1

\* (.*?) growing from c on until the closing marker matches: where the
\* closing marker starts, or -1.  "." matches no newline.
RECURSIVE FirstCloser(_, _, _)
FirstCloser(line, c, name) ==
    IF c > Len(line) THEN -1
    ELSE IF InlineCloseAt(line, c, name) # -1 THEN c
    ELSE IF CharAt(line, c) = "\n" THEN -1
    ELSE FirstCloser(line, c + 1, name)

\* The match of the whole pattern, from its opening marker and the start of
\* its closing marker.
InlineMatchOf(line, p, open, c) ==
    IF c = -1 THEN NoMatch
    ELSE [start |-> p, end |-> InlineCloseAt(line, c, open.name),
          name |-> open.name, interior_start |-> open.end,
          interior_end |-> c]

\* The match after its opening marker.
InlineMatchFrom(line, p, open) ==
    IF open = NoMatch THEN NoMatch
    ELSE InlineMatchOf(line, p, open, FirstCloser(line, open.end, open.name))

\* The whole pattern matched at p: the match's span and its groups' spans, or
\* NoMatch.  (.*?) is lazy, so the closing marker is the first one of the same
\* name after the opening marker.
InlineMatchAt(line, p) == InlineMatchFrom(line, p, InlineOpenAt(line, p))

\* The matches from the attempt m at position p on.
RECURSIVE FindIterFrom(_, _, _)
FindIterFrom(line, p, m) ==
    IF p >= Len(line) THEN <<>>
    ELSE IF m = NoMatch
    THEN FindIterFrom(line, p + 1, InlineMatchAt(line, p + 1))
    ELSE <<m>> \o FindIterFrom(line, m.end, InlineMatchAt(line, m.end))

\* re.finditer(inline_pattern, line) from position p on: the matches, left to
\* right and non-overlapping.
FindIter(line, p) == FindIterFrom(line, p, InlineMatchAt(line, p))

InlineSnippet(name, line_offset, column_start_offset, column_end_offset) ==
    [name |-> name, kind |-> "inline", line_offset |-> line_offset,
     column_start_offset |-> column_start_offset,
     column_end_offset |-> column_end_offset]

\* The closing tag located as the first "{-" of the match instead of its last.
InlineSnippetOfFirstBrace(line, line_idx, match) ==
    InlineSnippet(match.name, line_idx + 1,
                  Find(line, <<"-", "}">>, match.start) + 2,
                  RFindFirst(line, <<"{", "-">>, match.start, match.end))

\* The body of the loop over the matches of one line.
InlineSnippetOf(line, line_idx, match) ==
    InlineSnippet(match.name, line_idx + 1,
                  Find(line, <<"-", "}">>, match.start) + 2,
                  RFind(line, <<"{", "-">>, match.start, match.end))

\* The snippets of the line at 0-indexed line_idx.
InlineSnippetsOfLine(line, line_idx) ==
    LET matches == FindIter(line, 0)
    IN  [k \in 1..Len(matches) |-> InlineSnippetOf(line, line_idx, matches[k])]

\* The loop over enumerate(lines), from line_idx on.
RECURSIVE InlineScan(_, _)
InlineScan(ls, line_idx) ==
    IF line_idx >= Len(ls) THEN <<>>
    ELSE InlineSnippetsOfLine(ls[line_idx + 1], line_idx)
            \o InlineScan(ls, line_idx + 1)

\* parse_inline_snippets(lines)
ParseInlineSnippets(ls) == InlineScan(ls, 0)

(***************************************************************************)
(* The render dispatcher                                                   *)
(***************************************************************************)

Digits == <<"0", "1", "2", "3", "4", "5", "6", "7", "8", "9">>

\* str(n) for n >= 0, as Python writes it: decimal, most significant first.
RECURSIVE StrNat(_)
StrNat(n) ==
    IF n < 10 THEN <<Digits[n + 1]>>
    ELSE StrNat(n \div 10) \o <<Digits[(n % 10) + 1]>>

\* str(n)
Str(n) == IF n < 0 THEN <<"-">> \o StrNat(-n) ELSE StrNat(n)

Katla == <<"k", "a", "t", "l", "a">>
Latex == <<"l", "a", "t", "e", "x">>
Macro == <<"m", "a", "c", "r", "o">>
Inline == <<"i", "n", "l", "i", "n", "e">>

\* The display command passing the snippet's own fields through unadjusted.
DisplayCmdUnadjusted(s, src_file, ttm_file) ==
    <<Katla, Latex, Macro, s.name, src_file, ttm_file,
      Str(s.line_offset), Str(0), Str(s.line_count)>>

\* case "display": cmd = [...]
DisplayCmd(s, src_file, ttm_file) ==
    <<Katla, Latex, Macro, s.name, src_file, ttm_file,
      Str(s.line_offset + 1), <<"0">>, Str(s.line_count - 1)>>

\* case "inline": cmd = [...]
InlineCmd(s, src_file, ttm_file) ==
    <<Katla, Latex, Macro, Inline, s.name, src_file, ttm_file,
      <<"0">>, Str(s.line_offset), Str(s.column_start_offset + 1),
      Str(s.column_end_offset)>>

\* match snippet.kind: ... cmd
BuildCmd(s, src_file, ttm_file) ==
    IF s.kind = "display" THEN DisplayCmd(s, src_file, ttm_file)
    ELSE InlineCmd(s, src_file, ttm_file)

PctError == <<"%", " ", "E", "r", "r", "o", "r">>

\* f"% Error generating macro for {snippet.name}\n"
ErrorPlaceholder(name) ==
    PctError \o <<" ", "g", "e", "n", "e", "r", "a", "t", "i", "n", "g", " ",
                  "m", "a", "c", "r", "o", " ", "f", "o", "r", " ">>
             \o name \o <<"\n">>

\* f"% Dry run - would generate macro for {snippet.name}\n"
DryRunPlaceholder(name) ==
    <<"%", " ", "D", "r", "y", " ", "r", "u", "n", " ", "-", " ", "w", "o",
      "u", "l", "d", " ", "g", "e", "n", "e", "r", "a", "t", "e", " ", "m",
      "a", "c", "r", "o", " ", "f", "o", "r", " ">> \o name \o <<"\n">>

\* What subprocess.run(cmd, ...) can do: raise, or return a completed process.
Raised == [kind |-> "raise", returncode |-> -1, stdout |-> <<>>]
Exited(returncode, stdout) ==
    [kind |-> "exit", returncode |-> returncode, stdout |-> stdout]

\* What the renderer may print: nothing, a macro with and without its line
\* terminator, and a text that begins as the error placeholder does.
StdoutSet ==
    { <<>>, <<"m", "\n">>, <<"m">>, PctError \o <<"\n">> }

Outcomes ==
    {Raised} \cup {Exited(0, out) : out \in StdoutSet} \cup {Exited(1, <<>>)}

\* run_katla_command(snippet, src_file, ttm_file, dry_run), where outcome is
\* what subprocess.run does if it is called: the command built, whether the
\* process was run (ran), whether "Would run: ..." was printed (reported),
\* and the string returned.
RunKatlaCommand(s, src_file, ttm_file, dry, outcome) ==
    LET cmd == BuildCmd(s, src_file, ttm_file)
    IN  IF dry
        THEN [cmd |-> cmd, ran |-> FALSE, reported |-> TRUE,
              output |-> DryRunPlaceholder(s.name)]
        ELSE IF outcome.kind = "raise" \/ outcome.returncode # 0
        THEN [cmd |-> cmd, ran |-> TRUE, reported |-> FALSE,
              output |-> ErrorPlaceholder(s.name)]
        ELSE [cmd |-> cmd, ran |-> TRUE, reported |-> FALSE,
              output |-> outcome.stdout]

(***************************************************************************)
(* Inputs of the parser harness and of the dispatcher harness              *)
(***************************************************************************)

\* Bounds of the inputs.
MaxLines == 4
MaxFrags == 4
MaxLineOffset == 10
MaxLineCount == 3
MaxColumn == 9

\* All sequences over S of length 0..n.
RECURSIVE SeqsUpTo(_, _)
SeqsUpTo(S, n) ==
    IF n = 0 THEN {<<>>}
    ELSE LET shorter == SeqsUpTo(S, n - 1)
         IN  shorter \cup {Append(q, x) : q \in shorter, x \in S}

\* Lines of the display grammar: opening and closing markers of two names in
\* several spacings, a content line, and an opening marker followed by text.
DisplayLineSet ==
    { <<"-", "-", " ", "<", "a", ">">>,
      <<"-", "-", " ", "<", "/", "a", ">">>,
      <<"-", "-", "<", "b", ">">>,
      <<" ", "-", "-", " ", "<", "/", "b", ">", "\t">>,
      <<"x">>,
      <<"-", "-", " ", "<", "a", ">", " ", "x">> }

\* Pieces of an inline line: whole markers, bare delimiters, and text.
InlineFragSet ==
    { <<"{", "-", " ", "<", "a", ">", " ", "-", "}">>,
      <<"{", "-", "<", "/", "a", ">", "-", "}">>,
      <<"{", "-", "<", "/", "b", ">", "-", "}">>,
      <<"{", "-">>,
      <<"-", "}">>,
      <<"x">> }

RECURSIVE Flatten(_)
Flatten(frags) ==
    IF frags = <<>> THEN <<>> ELSE Head(frags) \o Flatten(Tail(frags))

Content == <<"x">>

\* The display pair at 0-indexed lines 4 and 7, the inline pair around "xyz" on
\* line 3, and a line with two inline pairs, the first around text that holds
\* both delimiters, the second empty.
ExampleFiles ==
    { <<Content, Content, Content, Content,
        <<"-", "-", " ", "<", "f", "o", "o", ">">>, Content, Content,
        <<"-", "-", " ", "<", "/", "f", "o", "o", ">">>>>,
      <<Content, Content,
        <<"{", "-", " ", "<", "b", "a", "r", ">", " ", "-", "}", "x", "y",
          "z", "{", "-", " ", "<", "/", "b", "a", "r", ">", " ", "-", "}">>>>,
      <<<<"{", "-", "<", "a", ">", "-", "}", "x", "{", "-", "y", "-", "}",
          "z", "{", "-", "<", "/", "a", ">", "-", "}", " ", "{", "-", " ",
          "<", "b", ">", "-", "}", "{", "-", "<", "/", "b", ">", " ", "-",
          "}">>>> }

ParseInputs ==
    SeqsUpTo(DisplayLineSet, MaxLines)
        \cup {<<Flatten(f)>> : f \in SeqsUpTo(InlineFragSet, MaxFrags)}
        \cup {<<Content, Flatten(f)>> : f \in SeqsUpTo(InlineFragSet, 2)}
        \cup ExampleFiles

SnippetNames == { <<"a">>, <<"f", "o", "o">> }

SnippetInputs ==
    {DisplaySnippet(n, lo, lc) :
        n \in SnippetNames, lo \in 1..MaxLineOffset, lc \in 0..MaxLineCount}
    \cup
    {InlineSnippet(n, lo, cs, ce) :
        n \in SnippetNames, lo \in {1, 7, MaxLineOffset},
        cs \in 0..MaxColumn, ce \in 0..MaxColumn}

SrcA == <<"A", ".", "i", "d", "r">>
SrcB == <<"B", ".", "i", "d", "r">>
SrcMissing == <<"M", ".", "i", "d", "r">>
TtmA == <<"A", ".", "t", "t", "m">>
TtmMissing == <<"M", ".", "t", "t", "m">>

NoSnippet == [name |-> <<>>, kind |-> "none"]
NotDispatched == [cmd |-> <<>>, ran |-> FALSE, reported |-> FALSE,
                  output |-> <<>>]

(***************************************************************************)
(* The harnesses: the parsers applied to a line list as parse_file applies *)
(* them, and run_katla_command applied to a snippet                        *)
(***************************************************************************)

MainIdle ==
    /\ pc = "idle"
    /\ files = <<>>
    /\ dry_run = FALSE
    /\ writable = TRUE
    /\ file_pairs = <<>>
    /\ pair_idx = 0
    /\ snippets = <<>>
    /\ snip_idx = 0
    /\ total_success = 0
    /\ total_snippets = 0
    /\ all_macro_content = <<>>
    /\ origin = <<>>
    /\ invocations = <<>>
    /\ reports = <<>>
    /\ debug_out = <<>>
    /\ skipped = <<>>
    /\ output_file = <<>>
    /\ exit_status = -1

InitParse ==
    /\ stage = "input"
    /\ lines \in ParseInputs
    /\ display_snippets = <<>>
    /\ display_warnings = <<>>
    /\ inline_snippets = <<>>
    /\ snippet = NoSnippet
    /\ dispatched = NotDispatched
    /\ MainIdle

\* display_snippets = parse_display_snippets(lines)
ParseDisplay ==
    /\ stage = "input"
    /\ display_snippets' = ParseDisplaySnippets(lines).snippets
    /\ display_warnings' = ParseDisplaySnippets(lines).warnings
    /\ stage' = "display"
    /\ UNCHANGED <<lines, inline_snippets, snippet, dispatched, main_vars>>

\* inline_snippets = parse_inline_snippets(lines)
ParseInline ==
    /\ stage = "display"
    /\ inline_snippets' = ParseInlineSnippets(lines)
    /\ stage' = "parsed"
    /\ UNCHANGED <<lines, display_snippets, display_warnings, snippet,
                   dispatched, main_vars>>

NextParse == ParseDisplay \/ ParseInline

SpecParse == InitParse /\ [][NextParse]_vars

InitDispatch ==
    /\ stage = "snippet"
    /\ lines = <<>>
    /\ display_snippets = <<>>
    /\ display_warnings = <<>>
    /\ inline_snippets = <<>>
    /\ snippet \in SnippetInputs
    /\ dispatched = NotDispatched
    /\ MainIdle

\* run_katla_command(snippet, src_file, ttm_file, dry_run)
Dispatch ==
    /\ stage = "snippet"
    /\ \E dry \in BOOLEAN, outcome \in Outcomes :
          dispatched' = RunKatlaCommand(snippet, SrcA, TtmA, dry, outcome)
    /\ stage' = "dispatched"
    /\ UNCHANGED <<lines, display_snippets, display_warnings, inline_snippets,
                   snippet, main_vars>>

NextDispatch == Dispatch

SpecDispatch == InitDispatch /\ [][NextDispatch]_vars

(***************************************************************************)
(* The files of the model                                                  *)
(***************************************************************************)

\* f.readlines() of each source file that exists.  A.idr holds a display
\* snippet around an inline snippet, and an unclosed opening marker; B.idr
\* holds an empty inline snippet before an empty display snippet, and its last
\* line has no terminator.
FileLines ==
    [filepath \in {SrcA, SrcB} |->
        IF filepath = SrcA
        THEN << <<"-", "-", " ", "<", "a", ">", "\n">>,
                <<"x", " ", "{", "-", " ", "<", "b", ">", " ", "-", "}", "y",
                  "{", "-", " ", "<", "/", "b", ">", " ", "-", "}", "\n">>,
                <<"-", "-", " ", "<", "/", "a", ">", "\n">>,
                <<"-", "-", " ", "<", "c", ">", "\n">> >>
        ELSE << <<"{", "-", "<", "a", ">", "-", "}", "{", "-", "<", "/", "a",
                  ">", "-", "}", "\n">>,
                <<"-", "-", "<", "b", ">", "\n">>,
                <<"-", "-", " ", "<", "/", "b", ">">> >>]

\* os.path.exists(path)
Exists(path) == path \in {SrcA, SrcB, TtmA}

\* lines = [line.rstrip("\n\r") for line in f.readlines()], for each file.
StrippedLines ==
    [filepath \in DOMAIN FileLines |->
        <<>> \o [k \in 1..Len(FileLines[filepath]) |->
                    RStripNewline(FileLines[filepath][k])]]

ReadLines(filepath) == StrippedLines[filepath]

\* parse_file returning the inline snippets before the display snippets.
ParseFileInlineFirst(filepath) ==
    IF ~Exists(filepath) THEN <<>>
    ELSE ParseInlineSnippets(ReadLines(filepath))
            \o ParseDisplaySnippets(ReadLines(filepath)).snippets

\* parse_file(filepath)
ParseFile(filepath) ==
    IF ~Exists(filepath) THEN <<>>
    ELSE ParseDisplaySnippets(ReadLines(filepath)).snippets
            \o ParseInlineSnippets(ReadLines(filepath))

(***************************************************************************)
(* print_snippet_debug                                                     *)
(***************************************************************************)

Min(a, b) == IF a < b THEN a ELSE b

\* What print_snippet_debug prints as the snippet's content: for a display
\* snippet the numbered lines of range(start_line, min(end_line, len(lines))),
\* for an inline snippet the slice of its line.
PrintSnippetDebug(s, ls) ==
    IF s.kind = "display"
    THEN LET start_line == s.line_offset
             end_line == start_line + s.line_count
             stop == Min(end_line, Len(ls))
         IN  [name |-> s.name, kind |-> "display",
              content |-> [k \in 1..(IF stop > start_line
                                     THEN stop - start_line ELSE 0) |->
                              <<start_line + k, ls[start_line + k]>>]]
    ELSE [name |-> s.name, kind |-> "inline",
          content |-> Slice(ls[s.line_offset], s.column_start_offset,
                            s.column_end_offset)]

(***************************************************************************)
(* main                                                                    *)
(***************************************************************************)

\* Bound on len(args.files).
MaxArgs == 4

SrcPaths == {SrcA, SrcB, SrcMissing}
TtmPaths == {TtmA, TtmMissing}

\* The argument lists: a source path, a metadata path, a source path, ...
ArgLists ==
    {a \in SeqsUpTo(SrcPaths \cup TtmPaths, MaxArgs) :
        /\ a # <<>>
        /\ \A k \in 1..Len(a) :
              a[k] \in (IF k % 2 = 1 THEN SrcPaths ELSE TtmPaths)}

Header1 ==
    <<"%", " ", "G", "e", "n", "e", "r", "a", "t", "e", "d", " ", "L", "a",
      "T", "e", "X", " ", "m", "a", "c", "r", "o", "s", " ", "f", "o", "r",
      " ", "a", "l", "l", " ", "I", "d", "r", "i", "s", " ", "f", "i", "l",
      "e", "s", "\n">>
Header2 ==
    <<"%", " ", "G", "e", "n", "e", "r", "a", "t", "e", "d", " ", "b", "y",
      " ", "g", "e", "n", "-", "k", "a", "t", "l", "a", ".", "p", "y", "\n",
      "\n">>

\* f"% Macros from {src_file}\n"
FileHeader(src_file) ==
    <<"%", " ", "M", "a", "c", "r", "o", "s", " ", "f", "r", "o", "m", " ">>
        \o src_file \o <<"\n">>

Newline == <<"\n">>

NotWritten == [written |-> FALSE, text |-> <<>>]
Running == -1

\* if macro_output and not macro_output.startswith("% Error")
IsSuccess(macro_output) ==
    macro_output # <<>> /\ ~StartsWith(macro_output, PctError)

\* The loop body inserting each fragment at the front of the list.
MacroFragmentsPrepended(content, macro_output) ==
    IF IsSuccess(macro_output)
    THEN IF EndsWith(macro_output, Newline)
         THEN <<macro_output>> \o content
         ELSE <<macro_output, Newline>> \o content
    ELSE IF macro_output # <<>> THEN <<macro_output>> \o content
    ELSE content

\* The fragment list after the loop body of lines 303-309 has handled
\* macro_output.
MacroFragments(content, macro_output) ==
    IF IsSuccess(macro_output)
    THEN IF EndsWith(macro_output, Newline)
         THEN content \o <<macro_output>>
         ELSE content \o <<macro_output, Newline>>
    ELSE IF macro_output # <<>> THEN content \o <<macro_output>>
    ELSE content

\* origin extended to the length of the new fragment list.
Tagged(tags, content, p, k) ==
    tags \o [x \in 1..(Len(content) - Len(tags)) |-> <<p, k>>]

\* A failing snippet ending the loop over the file's snippets.
NextSnippetStoppingOnError(k, n, macro_output) ==
    IF macro_output # <<>> /\ ~IsSuccess(macro_output) THEN n + 1 ELSE k + 1

\* The for loop over snippets moving on, whatever macro_output was.
NextSnippet(k, n, macro_output) == k + 1

Init ==
    /\ pc = "start"
    /\ files \in ArgLists
    /\ dry_run \in BOOLEAN
    /\ writable = TRUE
    /\ file_pairs = <<>>
    /\ pair_idx = 0
    /\ snippets = <<>>
    /\ snip_idx = 0
    /\ total_success = 0
    /\ total_snippets = 0
    /\ all_macro_content = <<>>
    /\ origin = <<>>
    /\ invocations = <<>>
    /\ reports = <<>>
    /\ debug_out = <<>>
    /\ skipped = <<>>
    /\ output_file = NotWritten
    /\ exit_status = Running
    /\ stage = "idle"
    /\ lines = <<>>
    /\ display_snippets = <<>>
    /\ display_warnings = <<>>
    /\ inline_snippets = <<>>
    /\ snippet = NoSnippet
    /\ dispatched = NotDispatched

\* Lines 246-266: the pair check, file_pairs, the counters and the header.
ParseArgs ==
    /\ pc = "start"
    /\ IF Len(files) % 2 # 0
       THEN /\ exit_status' = 1
            /\ pc' = "exit"
            /\ UNCHANGED <<file_pairs, pair_idx, all_macro_content, origin>>
       ELSE /\ file_pairs' = [k \in 1..(Len(files) \div 2) |->
                                [src_file |-> files[2 * k - 1],
                                 ttm_file |-> files[2 * k]]]
            /\ all_macro_content' = <<Header1, Header2>>
            /\ origin' = << <<0, 0>>, <<0, 0>> >>
            /\ pair_idx' = 1
            /\ pc' = "pairs"
            /\ UNCHANGED exit_status
    /\ UNCHANGED <<files, dry_run, writable, snippets, snip_idx,
                   total_success, total_snippets, invocations, reports,
                   debug_out, skipped, output_file, parse_vars>>

\* Whether the existence checks of lines 272-277 skip the pair.
PairSkipped(pair, dry) ==
    \/ ~Exists(pair.src_file)
    \/ (~dry /\ ~Exists(pair.ttm_file))

\* Lines 272-277: a missing source or metadata file; continue.
SkipPair ==
    /\ pc = "pairs"
    /\ pair_idx <= Len(file_pairs)
    /\ PairSkipped(file_pairs[pair_idx], dry_run)
    /\ skipped' = Append(skipped, pair_idx)
    /\ pair_idx' = pair_idx + 1
    /\ UNCHANGED <<pc, files, dry_run, writable, file_pairs, snippets,
                   snip_idx, total_success, total_snippets,
                   all_macro_content, origin, invocations, reports,
                   debug_out, output_file, exit_status, parse_vars>>

\* Lines 279-292, dry run: parse, count, print each snippet's debug
\* information; the loop body ends there.
DebugPair ==
    /\ pc = "pairs"
    /\ pair_idx <= Len(file_pairs)
    /\ ~PairSkipped(file_pairs[pair_idx], dry_run)
    /\ dry_run
    /\ LET src == file_pairs[pair_idx].src_file
           found == ParseFile(src)
       IN  /\ snippets' = found
           /\ total_snippets' = total_snippets + Len(found)
           /\ debug_out' = debug_out \o
                [k \in 1..Len(found) |->
                    PrintSnippetDebug(found[k], ReadLines(src))]
    /\ pair_idx' = pair_idx + 1
    /\ UNCHANGED <<pc, files, dry_run, writable, file_pairs, snip_idx,
                   total_success, all_macro_content, origin, invocations,
                   reports, skipped, output_file, exit_status, parse_vars>>

\* Lines 279-297, normal mode: parse, count, add the file's header.
BeginPair ==
    /\ pc = "pairs"
    /\ pair_idx <= Len(file_pairs)
    /\ ~PairSkipped(file_pairs[pair_idx], dry_run)
    /\ ~dry_run
    /\ LET src == file_pairs[pair_idx].src_file
           found == ParseFile(src)
           content == IF found # <<>>
                      THEN Append(all_macro_content, FileHeader(src))
                      ELSE all_macro_content
       IN  /\ snippets' = found
           /\ total_snippets' = total_snippets + Len(found)
           /\ all_macro_content' = content
           /\ origin' = Tagged(origin, content, pair_idx, 0)
    /\ snip_idx' = 1
    /\ pc' = "snippets"
    /\ UNCHANGED <<files, dry_run, writable, file_pairs, pair_idx,
                   total_success, invocations, reports, debug_out, skipped,
                   output_file, exit_status, parse_vars>>

\* Lines 299-309: one iteration of the loop over snippets, with what
\* subprocess.run does in it.
DispatchSnippet ==
    /\ pc = "snippets"
    /\ snip_idx <= Len(snippets)
    /\ \E outcome \in Outcomes :
          LET pair == file_pairs[pair_idx]
              r == RunKatlaCommand(snippets[snip_idx], pair.src_file,
                                   pair.ttm_file, dry_run, outcome)
              content == MacroFragments(all_macro_content, r.output)
          IN  /\ invocations' =
                    IF r.ran
                    THEN Append(invocations,
                                [pair |-> pair_idx, snippet |-> snip_idx,
                                 cmd |-> r.cmd, outcome |-> outcome])
                    ELSE invocations
              /\ reports' = IF r.reported THEN Append(reports, r.cmd)
                            ELSE reports
              /\ all_macro_content' = content
              /\ origin' = Tagged(origin, content, pair_idx, snip_idx)
              /\ total_success' = IF IsSuccess(r.output)
                                  THEN total_success + 1 ELSE total_success
              /\ snip_idx' = NextSnippet(snip_idx, Len(snippets), r.output)
    /\ UNCHANGED <<pc, files, dry_run, writable, file_pairs, pair_idx,
                   snippets, total_snippets, debug_out, skipped, output_file,
                   exit_status, parse_vars>>

\* Lines 311-312: the blank line after a file's snippets; next pair.
EndPair ==
    /\ pc = "snippets"
    /\ snip_idx > Len(snippets)
    /\ LET content == IF snippets # <<>>
                      THEN Append(all_macro_content, Newline)
                      ELSE all_macro_content
       IN  /\ all_macro_content' = content
           /\ origin' = Tagged(origin, content, pair_idx, 0)
    /\ pair_idx' = pair_idx + 1
    /\ pc' = "pairs"
    /\ UNCHANGED <<files, dry_run, writable, file_pairs, snippets, snip_idx,
                   total_success, total_snippets, invocations, reports,
                   debug_out, skipped, output_file, exit_status, parse_vars>>

\* The exit status of lines 327-329.
FinalStatus(success, total) == IF success < total THEN 1 ELSE 0

\* Lines 314-334: write the combined file (can_write: whether the open and
\* the write succeed), report, exit.
Finish ==
    /\ pc = "pairs"
    /\ pair_idx > Len(file_pairs)
    /\ IF dry_run
       THEN /\ exit_status' = 0
            /\ UNCHANGED <<output_file, writable>>
       ELSE \E can_write \in BOOLEAN :
            /\ writable' = can_write
            /\ IF can_write
               THEN /\ output_file' = [written |-> TRUE,
                                       text |-> Flatten(all_macro_content)]
                    /\ exit_status' = FinalStatus(total_success, total_snippets)
               ELSE /\ exit_status' = 1
                    /\ UNCHANGED output_file
    /\ pc' = "exit"
    /\ UNCHANGED <<files, dry_run, file_pairs, pair_idx, snippets, snip_idx,
                   total_success, total_snippets, all_macro_content, origin,
                   invocations, reports, debug_out, skipped, parse_vars>>

Next ==
    \/ ParseArgs
    \/ SkipPair
    \/ DebugPair
    \/ BeginPair
    \/ DispatchSnippet
    \/ EndPair
    \/ Finish

Spec == Init /\ [][Next]_vars

(***************************************************************************)
(* Properties of the parsers (SpecParse)                                   *)
(***************************************************************************)

\* The display grammar read off the line list, 0-indexed.
IsOpener(i) == DisplayStartMatch(Strip(lines[i + 1])) # NoMatch
OpenerName(i) == DisplayStartMatch(Strip(lines[i + 1]))
IsCloserOf(i, j) == j > i /\ DisplayEndMatch(OpenerName(i), Strip(lines[j + 1]))
Closers(i) == {j \in (i + 1)..(Len(lines) - 1) : IsCloserOf(i, j)}
FirstClosing(i) == CHOOSE j \in Closers(i) : \A j2 \in Closers(i) : j <= j2
ClosedOpeners ==
    {i \in 0..(Len(lines) - 1) : IsOpener(i) /\ Closers(i) # {}}
UnclosedOpeners ==
    {i \in 0..(Len(lines) - 1) : IsOpener(i) /\ Closers(i) = {}}
\* The k-th opening marker, top to bottom, that has a closing marker.
NthClosedOpener(k) ==
    CHOOSE i \in ClosedOpeners :
        Cardinality({i2 \in ClosedOpeners : i2 <= i}) = k
DisplayParsed == stage \in {"display", "parsed"}

\* C3: the k-th display snippet, made for the k-th opening marker that has a
\* closing marker, at 0-indexed line L with its first closing marker at
\* 0-indexed line c, has line_offset = L + 1 and line_count = c - L - 1, and
\* no line_count is negative.
C3_OffsetAndCount ==
    DisplayParsed =>
        \A k \in DOMAIN display_snippets :
            /\ k <= Cardinality(ClosedOpeners)
            /\ display_snippets[k].line_offset = NthClosedOpener(k) + 1
            /\ display_snippets[k].line_count =
                    FirstClosing(NthClosedOpener(k)) - NthClosedOpener(k) - 1
            /\ display_snippets[k].line_count >= 0

C3_Witness ==
    /\ DisplayParsed
    /\ Len(lines) = 8
    /\ IsOpener(4)
    /\ FirstClosing(4) = 7
    /\ display_snippets = <<DisplaySnippet(<<"f", "o", "o">>, 5, 2)>>

\* C4 as claimed: line_offset is the 1-indexed number of the first content
\* line, the line after the opening marker (0-indexed L + 1, 1-indexed L + 2).
C4_OffsetIsFirstContentLine ==
    DisplayParsed =>
        \A k \in DOMAIN display_snippets :
            display_snippets[k].line_offset = NthClosedOpener(k) + 2

\* C4 as amended: line_offset is the 1-indexed number of the opening marker
\* line itself: the line with that number is an opening marker of the
\* snippet's name, and the snippet's closing marker is line_count + 1 lines
\* below it.
C4_OffsetIsOpeningMarkerLine ==
    DisplayParsed =>
        \A k \in DOMAIN display_snippets :
            LET s == display_snippets[k]
            IN  /\ s.line_offset \in 1..Len(lines)
                /\ DisplayStartMatch(Strip(lines[s.line_offset])) = s.name
                /\ s.line_offset + s.line_count + 1 \in 1..Len(lines)
                /\ DisplayEndMatch(s.name,
                        Strip(lines[s.line_offset + s.line_count + 1]))

C4_Witness ==
    /\ DisplayParsed
    /\ lines = << <<"x">>, <<"-", "-", " ", "<", "a", ">">>, <<"x">>,
                  <<"-", "-", " ", "<", "/", "a", ">">> >>
    /\ display_snippets = <<DisplaySnippet(<<"a">>, 2, 1)>>

\* The inline snippets of the line at 0-indexed line_idx, in list order.
InlineOfLine(line_idx) ==
    SelectSeq(inline_snippets, LAMBDA s : s.line_offset = line_idx + 1)

\* C5: for every line, the inline snippets of the line are its matches left
\* to right; each one's column_start_offset is the position right after the
\* opening marker's "-}", its column_end_offset the position of the closing
\* marker's "{-", start <= end, and the slice between them is the text the
\* pattern's (.*?) matched.
C5_InlineOffsets ==
    stage = "parsed" =>
        \A line_idx \in 0..(Len(lines) - 1) :
            LET line == lines[line_idx + 1]
                matches == FindIter(line, 0)
                found == InlineOfLine(line_idx)
            IN  /\ Len(found) = Len(matches)
                /\ \A k \in DOMAIN found :
                    LET s == found[k]
                        m == matches[k]
                    IN  /\ s.name = m.name
                        /\ s.column_start_offset = m.interior_start
                        /\ s.column_end_offset = m.interior_end
                        /\ s.column_start_offset <= s.column_end_offset
                        /\ HasAt(line, s.column_start_offset - 2, <<"-", "}">>)
                        /\ HasAt(line, s.column_end_offset, <<"{", "-">>)
                        /\ InlineCloseAt(line, s.column_end_offset, s.name)
                                = m.end
                        /\ Slice(line, s.column_start_offset,
                                 s.column_end_offset)
                             = SubSeq(line, m.interior_start + 1,
                                      m.interior_end)

\* Two matches on one line: the first around "x{-y-}z", the second empty.
C5_Witness ==
    /\ stage = "parsed"
    /\ Len(lines) = 1
    /\ Len(inline_snippets) = 2
    /\ Slice(lines[1], inline_snippets[1].column_start_offset,
             inline_snippets[1].column_end_offset)
          = <<"x", "{", "-", "y", "-", "}", "z">>
    /\ inline_snippets[2].column_start_offset
          = inline_snippets[2].column_end_offset
    /\ inline_snippets[2].name = <<"b">>

\* C6: an opening marker with no closing marker of its name on a later line
\* yields no record and exactly one warning, and the scan goes on: every
\* opening marker below it that has a closing marker still gets its record.
C6_UnclosedMarker ==
    DisplayParsed =>
        \A i \in UnclosedOpeners :
            /\ \A k \in DOMAIN display_snippets :
                    display_snippets[k].line_offset # i + 1
            /\ Cardinality({k \in DOMAIN display_warnings :
                                display_warnings[k] = i + 1}) = 1
            /\ \A i2 \in ClosedOpeners :
                    i2 > i =>
                        \E k \in DOMAIN display_snippets :
                            /\ display_snippets[k].line_offset = i2 + 1
                            /\ display_snippets[k].name = OpenerName(i2)

C6_Witness ==
    /\ DisplayParsed
    /\ lines = << <<"-", "-", " ", "<", "a", ">">>, <<"-", "-", "<", "b", ">">>,
                  <<" ", "-", "-", " ", "<", "/", "b", ">", "\t">> >>
    /\ display_warnings = <<1>>
    /\ display_snippets = <<DisplaySnippet(<<"b">>, 2, 0)>>

\* C10: the records are in one-to-one correspondence with the opening markers
\* that have a later closing marker of their name, each matched to the first
\* such closing marker, in strictly increasing line_offset order.
C10_OneRecordPerClosedOpener ==
    DisplayParsed =>
        /\ Len(display_snippets) = Cardinality(ClosedOpeners)
        /\ {display_snippets[k].line_offset - 1 : k \in DOMAIN display_snippets}
              = ClosedOpeners
        /\ \A k \in DOMAIN display_snippets :
              /\ display_snippets[k].line_offset - 1 \in ClosedOpeners
              /\ display_snippets[k].name
                    = OpenerName(display_snippets[k].line_offset - 1)
              /\ display_snippets[k].line_offset + display_snippets[k].line_count
                    = FirstClosing(display_snippets[k].line_offset - 1)
        /\ \A k \in 1..(Len(display_snippets) - 1) :
              display_snippets[k].line_offset
                  < display_snippets[k + 1].line_offset

\* Two opening markers of one name that share one closing line.
C10_Witness ==
    /\ DisplayParsed
    /\ lines = << <<"-", "-", " ", "<", "a", ">">>, <<"-", "-", " ", "<", "a", ">">>,
                  <<"x">>, <<"-", "-", " ", "<", "/", "a", ">">> >>
    /\ display_snippets = <<DisplaySnippet(<<"a">>, 1, 2),
                            DisplaySnippet(<<"a">>, 2, 1)>>

(***************************************************************************)
(* Properties of the dispatcher (SpecDispatch)                             *)
(***************************************************************************)

DigitValue(c) ==
    CASE c = "0" -> 0 [] c = "1" -> 1 [] c = "2" -> 2 [] c = "3" -> 3
      [] c = "4" -> 4 [] c = "5" -> 5 [] c = "6" -> 6 [] c = "7" -> 7
      [] c = "8" -> 8 [] c = "9" -> 9

\* The number a string of decimal digits writes.
RECURSIVE NatOf(_)
NatOf(s) ==
    IF Len(s) = 1 THEN DigitValue(s[1])
    ELSE 10 * NatOf(SubSeq(s, 1, Len(s) - 1)) + DigitValue(s[Len(s)])

\* Whether s is a decimal numeral: digits after an optional minus sign, with
\* no leading zero.
IsNumeral(s) ==
    LET digits == IF s # <<>> /\ s[1] = "-" THEN Tail(s) ELSE s
    IN  /\ digits # <<>>
        /\ \A k \in DOMAIN digits :
              digits[k] \in {"0", "1", "2", "3", "4", "5", "6", "7", "8", "9"}
        /\ Len(digits) > 1 => digits[1] # "0"

\* The integer the numeral s writes.
IntOf(s) == IF s[1] = "-" THEN 0 - NatOf(Tail(s)) ELSE NatOf(s)

Writes(s, n) == IsNumeral(s) /\ IntOf(s) = n

\* C2: one call of run_katla_command builds one command, run or (in a dry
\* run) reported; after "katla latex macro" a display snippet's command holds
\* name, source, metadata, line_offset + 1, 0, line_count - 1, and an inline
\* snippet's holds "inline", name, source, metadata, 0, line_offset,
\* column_start_offset + 1, column_end_offset; display (10, 3) gives 11 0 2,
\* inline (7, 4, 9) gives 0 7 5 9, and line_count = 0 gives -1.
C2_CommandParameters ==
    stage = "dispatched" =>
        LET cmd == dispatched.cmd
        IN  /\ dispatched.ran # dispatched.reported
            /\ snippet.kind = "display" =>
                /\ Len(cmd) = 9
                /\ SubSeq(cmd, 1, 6) =
                      <<Katla, Latex, Macro, snippet.name, SrcA, TtmA>>
                /\ Writes(cmd[7], snippet.line_offset + 1)
                /\ cmd[8] = <<"0">>
                /\ Writes(cmd[9], snippet.line_count - 1)
                /\ (snippet.line_offset = 10 /\ snippet.line_count = 3) =>
                      SubSeq(cmd, 7, 9) = << <<"1", "1">>, <<"0">>, <<"2">> >>
                /\ snippet.line_count = 0 => cmd[9] = <<"-", "1">>
            /\ snippet.kind = "inline" =>
                /\ Len(cmd) = 11
                /\ SubSeq(cmd, 1, 7) =
                      <<Katla, Latex, Macro, Inline, snippet.name, SrcA, TtmA>>
                /\ cmd[8] = <<"0">>
                /\ Writes(cmd[9], snippet.line_offset)
                /\ Writes(cmd[10], snippet.column_start_offset + 1)
                /\ Writes(cmd[11], snippet.column_end_offset)
                /\ (/\ snippet.line_offset = 7
                    /\ snippet.column_start_offset = 4
                    /\ snippet.column_end_offset = 9) =>
                      SubSeq(cmd, 8, 11) =
                          << <<"0">>, <<"7">>, <<"5">>, <<"9">> >>

\* An empty display snippet dispatched to the renderer.
C2_Witness ==
    /\ stage = "dispatched"
    /\ snippet = DisplaySnippet(<<"f", "o", "o">>, 10, 0)
    /\ dispatched.ran
    /\ SubSeq(dispatched.cmd, 7, 9) = << <<"1", "1">>, <<"0">>, <<"-", "1">> >>

(***************************************************************************)
(* Properties of main (Spec)                                               *)
(***************************************************************************)

\* main ran to its end on a well-formed argument list.
NormalDone == pc = "exit" /\ ~dry_run /\ Len(files) % 2 = 0
DryRunDone == pc = "exit" /\ dry_run /\ Len(files) % 2 = 0

\* Whether one of the pair's two files is missing.
MissingFile(p) ==
    \/ file_pairs[p].src_file \notin {SrcA, SrcB}
    \/ file_pairs[p].ttm_file # TtmA

\* The snippets of each source path, and of pair p's source file.
SnippetsOfPath == [path \in SrcPaths |-> <<>> \o ParseFile(path)]
PairSnippets(p) == SnippetsOfPath[file_pairs[p].src_file]

\* The <<pair, snippet>> of every snippet of every pair from p on whose two
\* files exist, in pair order and, within a pair, in list order.
RECURSIVE SnippetsFrom(_)
SnippetsFrom(p) ==
    IF p > Len(file_pairs) THEN <<>>
    ELSE (IF MissingFile(p) THEN <<>>
          ELSE [k \in 1..Len(PairSnippets(p)) |-> <<p, k>>])
         \o SnippetsFrom(p + 1)

RenderedOk(inv) == inv.outcome.kind = "exit" /\ inv.outcome.returncode = 0

\* C1: in normal mode, if the renderer was run for every discovered snippet
\* and exited with status zero every time, and the output file was written,
\* then the success counter equals the total counter and the exit status is 0.
C1_AllRenderedMeansSuccess ==
    (/\ NormalDone
     /\ writable
     /\ Len(invocations) = total_snippets
     /\ \A k \in DOMAIN invocations : RenderedOk(invocations[k]))
    => (total_success = total_snippets /\ exit_status = 0)

IsPrefix(a, b) == Len(a) <= Len(b) /\ SubSeq(b, 1, Len(a)) = a

\* The fragments a snippet contributed.
SnippetFragments == {x \in DOMAIN origin : origin[x][2] >= 1}

\* Discovery order within one file: display snippets by opening marker, then
\* inline snippets by line and, within a line, left to right.
DiscoveredBefore(a, b) ==
    \/ a.kind = "display" /\ b.kind = "inline"
    \/ a.kind = "display" /\ b.kind = "display" /\ a.line_offset < b.line_offset
    \/ /\ a.kind = "inline" /\ b.kind = "inline"
       /\ \/ a.line_offset < b.line_offset
          \/ /\ a.line_offset = b.line_offset
             /\ a.column_end_offset <= b.column_start_offset

\* Every snippet fragment is its snippet's renderer output, the line
\* terminator added to it, or its snippet's failure placeholder; and the
\* fragments lie in pair order and, within a pair, in discovery order.
FragmentsInOrder ==
    /\ Len(origin) = Len(all_macro_content)
    /\ \A x \in SnippetFragments :
          LET p == origin[x][1]
              k == origin[x][2]
          IN  /\ p \in DOMAIN file_pairs
              /\ k \in DOMAIN PairSnippets(p)
              /\ \/ all_macro_content[x] = ErrorPlaceholder(PairSnippets(p)[k].name)
                 \/ all_macro_content[x] = Newline /\ origin[x - 1] = origin[x]
                 \/ \E n \in DOMAIN invocations :
                       /\ invocations[n].pair = p
                       /\ invocations[n].snippet = k
                       /\ invocations[n].outcome.stdout = all_macro_content[x]
    /\ \A x, y \in SnippetFragments :
          x < y =>
              \/ origin[x] = origin[y]
              \/ origin[x][1] < origin[y][1]
              \/ /\ origin[x][1] = origin[y][1]
                 /\ DiscoveredBefore(PairSnippets(origin[x][1])[origin[x][2]],
                                     PairSnippets(origin[y][1])[origin[y][2]])

\* C7: the accumulated output only grows at its end, and its fragments lie in
\* file-pair order and, within a file, in discovery order, display snippets
\* before inline snippets.
C7_AppendOnlyInOrder ==
    /\ [][IsPrefix(all_macro_content, all_macro_content')]_vars
    /\ [](~dry_run => FragmentsInOrder)

\* Both files processed, B.idr's display snippet (found below its inline
\* snippet) rendered before the inline one, which failed.
C7_Witness ==
    /\ NormalDone
    /\ Len(file_pairs) = 2
    /\ file_pairs[2].src_file = SrcB
    /\ Len(invocations) = 4
    /\ \E x, y \in SnippetFragments :
          /\ x < y
          /\ origin[x] = <<2, 1>>
          /\ origin[y] = <<2, 2>>
          /\ PairSnippets(2)[1].line_offset > PairSnippets(2)[2].line_offset
          /\ all_macro_content[x] = <<"m">>
          /\ all_macro_content[y] = ErrorPlaceholder(<<"a">>)

Failed(inv) == ~RenderedOk(inv)

\* C8: in normal mode the renderer is invoked for exactly the snippets of the
\* pairs whose two files exist, each once, in order, whatever the earlier
\* invocations did: a skipped pair adds nothing to the totals, a failed
\* invocation leaves its placeholder and is not counted as a success.
C8_ErrorsDoNotHaltSiblings ==
    LET expected == SnippetsFrom(1)
    IN  /\ (~dry_run /\ pc \notin {"start", "idle"} /\ Len(files) % 2 = 0) =>
            /\ Len(invocations) <= Len(expected)
            /\ \A n \in DOMAIN invocations :
                LET p == invocations[n].pair
                    s == PairSnippets(p)[invocations[n].snippet]
                IN  /\ <<p, invocations[n].snippet>> = expected[n]
                    /\ invocations[n].cmd =
                          BuildCmd(s, file_pairs[p].src_file,
                                   file_pairs[p].ttm_file)
                    /\ Failed(invocations[n]) =>
                          \E x \in DOMAIN all_macro_content :
                              /\ origin[x] = expected[n]
                              /\ all_macro_content[x] = ErrorPlaceholder(s.name)
            /\ total_success <=
                  Cardinality({n \in DOMAIN invocations :
                                  RenderedOk(invocations[n])})
        /\ NormalDone =>
            /\ Len(invocations) = Len(expected)
            /\ total_snippets = Len(expected)
            /\ \A p \in DOMAIN file_pairs :
                  MissingFile(p) <=> (\E n \in DOMAIN skipped : skipped[n] = p)

\* The first pair skipped, then the second file's first snippet failing and
\* its second one still rendered.
C8_Witness ==
    /\ NormalDone
    /\ skipped = <<1>>
    /\ Len(file_pairs) = 2
    /\ Len(invocations) = 2
    /\ Failed(invocations[1])
    /\ RenderedOk(invocations[2])
    /\ total_snippets = 2
    /\ total_success = 1

DryRunPrefix ==
    <<"%", " ", "D", "r", "y", " ", "r", "u", "n">>

\* C9: in a dry run of main no renderer process is run, and for each
\* discovered snippet the invocation is reported and a placeholder line is
\* substituted in the output.
C9_DryRunReportsAndSubstitutes ==
    DryRunDone =>
        /\ invocations = <<>>
        /\ Len(reports) = total_snippets
        /\ Cardinality({x \in DOMAIN all_macro_content :
                            StartsWith(all_macro_content[x], DryRunPrefix)})
              = total_snippets

====
